---- MODULE Spec2Model ----
(***************************************************************************)
(* The JSON helper layer of greenlight (cmd/api/helpers.go): readIDParam,  *)
(* writeJSON and the size-capped readJSON, each run against the request    *)
(* and the response sink of one HTTP request.                              *)
(***************************************************************************)
EXTENDS Integers, Sequences, FiniteSets, TLC

VARIABLES pc, call, w, r, ret

vars == <<pc, call, w, r, ret>>

(***************************************************************************)
(* Bounds of the model.                                                    *)
(***************************************************************************)
\* longest id path parameter drawn from IdChars (the boundary values of the
\* 64-bit range are added to the inputs as they are)
MaxIdLen == 3
\* most segments (values, whitespace runs, garbage) in a request body
MaxSegs == 2
\* most members in the body's first JSON object
MaxMembers == 2
\* length in bytes of a short body segment
SmallLen == 64

\* maxBites of readJSON
MaxBytes == 1048576

(***************************************************************************)
(* The response sink: net/http's ResponseWriter.                           *)
(***************************************************************************)
\* textproto.CanonicalMIMEHeaderKey on the keys of the model
CanonicalKey(k) ==
    CASE k = "content-type" -> "Content-Type"
      [] k = "CONTENT-TYPE" -> "Content-Type"
      [] OTHER -> k

HeaderKeys == {"Content-Type", "content-type", "Location"}
HeaderVals == {<<"text/html">>, <<"a", "b">>}

\* every http.Header over the keys of the model
HeaderMaps == UNION {[ks -> HeaderVals] : ks \in SUBSET HeaderKeys}

NoHeader == [k \in {} |-> <<>>]

FreshWriter(server) ==
    [header |-> NoHeader,      \* w.Header(), the handler's header map
     wroteHeader |-> FALSE,    \* the status line and headers are committed
     status |-> 0,             \* the committed status code
     sent |-> NoHeader,        \* the headers committed with the status
     body |-> <<>>,            \* the body bytes written
     server |-> server,        \* the sink is the server's *response
     closeAfterReply |-> FALSE,
     events |-> <<>>]          \* the calls made on the sink, in order

\* h[key] = value, the plain map assignment of the copy loop
MapAssign(h, key, value) == (key :> value) @@ h

\* http.Header.Set: the key is canonicalised, the value replaces the entry
HeaderSet(h, key, value) == (CanonicalKey(key) :> <<value>>) @@ h

\* ResponseWriter.WriteHeader: the first call commits status and headers,
\* a later call is ignored
WriteHeader(sink, status) ==
    IF sink.wroteHeader
    THEN [sink EXCEPT !.events = Append(@, <<"WriteHeader", "">>)]
    ELSE [sink EXCEPT !.wroteHeader = TRUE,
                      !.status = status,
                      !.sent = sink.header,
                      !.events = Append(@, <<"WriteHeader", "">>)]

\* ResponseWriter.Write accepting the first n bytes of js: an uncommitted
\* sink commits with status 200 first
Write(sink, js, n) ==
    LET s == IF sink.wroteHeader THEN sink
             ELSE [sink EXCEPT !.wroteHeader = TRUE, !.status = 200,
                               !.sent = sink.header]
    IN [s EXCEPT !.body = @ \o SubSeq(js, 1, n),
                 !.events = Append(@, <<"Write", "">>)]

\* the values the committed response carries for a header name, names being
\* case-insensitive on the wire
SentValues(sink, name) ==
    UNION {{sink.sent[k][i] : i \in 1..Len(sink.sent[k])} :
           k \in {x \in DOMAIN sink.sent : CanonicalKey(x) = name}}

(***************************************************************************)
(* writeJSON                                                               *)
(***************************************************************************)
EnvKeys == <<"movie", "status">>
EnvKinds == {"string", "number", "chan"}
\* envelope: map[string]any, here a map from some of EnvKeys to value kinds
Envelopes == UNION {[ks -> EnvKinds] : ks \in SUBSET {EnvKeys[i] : i \in 1..Len(EnvKeys)}}

Statuses == {200, 404}

\* json.MarshalIndent fails on a value it cannot serialise (a chan)
MarshalFails(data) == \E k \in DOMAIN data : data[k] = "chan"

RECURSIVE MarshalLines(_, _)
MarshalLines(data, i) ==
    IF i > Len(EnvKeys) THEN <<>>
    ELSE (IF EnvKeys[i] \in DOMAIN data
          THEN <<<<"\t", EnvKeys[i], data[EnvKeys[i]]>>>>
          ELSE <<>>) \o MarshalLines(data, i + 1)

\* json.MarshalIndent(data, "", "\t"): keys in sorted order, one per line
MarshalIndent(data) == <<"{">> \o MarshalLines(data, 1) \o <<"}">>

NoCall == [op |-> "none"]
NoRet == [kind |-> "pending"]
RetNil == [kind |-> "nil"]
RetErr(e) == [kind |-> "error", err |-> e]
RetPanic(e) == [kind |-> "panic", err |-> e]

\* the request before a helper has touched it
FreshRequest == [param |-> <<>>, body |-> <<>>, members |-> <<>>,
                 reader |-> "orig", next |-> 1, off |-> 0, limitHit |-> FALSE]

\* the handler calls writeJSON(w, status, data, headers)
CallWriteJSON ==
    /\ pc = "idle"
    /\ \E status \in Statuses, data \in Envelopes, headers \in HeaderMaps :
          call' = [op |-> "writeJSON", status |-> status, data |-> data,
                   headers |-> headers, js |-> <<>>, copied |-> {}]
    /\ pc' = "wj_marshal"
    /\ UNCHANGED <<w, r, ret>>

\* writeJSON with the Content-Type set ahead of the serialization
WJ_Marshal_HeaderFirst ==
    /\ pc = "wj_marshal"
    /\ w' = [w EXCEPT !.header = HeaderSet(@, "Content-Type", "application/json"),
                      !.events = Append(@, <<"Header.Set", "Content-Type">>)]
    /\ IF MarshalFails(call.data)
       THEN /\ ret' = RetErr([msg |-> "json: unsupported type", arg |-> ""])
            /\ pc' = "done"
            /\ UNCHANGED call
       ELSE /\ call' = [call EXCEPT !.js = Append(MarshalIndent(call.data), "\n")]
            /\ pc' = "wj_copy"
            /\ UNCHANGED ret
    /\ UNCHANGED r

\* js, err := json.MarshalIndent(data, "", "\t"); on an error return it;
\* js = append(js, '\n')
WJ_Marshal ==
    /\ pc = "wj_marshal"
    /\ IF MarshalFails(call.data)
       THEN /\ ret' = RetErr([msg |-> "json: unsupported type", arg |-> ""])
            /\ pc' = "done"
            /\ UNCHANGED call
       ELSE /\ call' = [call EXCEPT !.js = Append(MarshalIndent(call.data), "\n")]
            /\ pc' = "wj_copy"
            /\ UNCHANGED ret
    /\ UNCHANGED <<w, r>>

\* one iteration of: for key, value := range headers { w.Header()[key] = value }
\* (Go ranges over a map in no fixed order)
WJ_CopyHeader ==
    /\ pc = "wj_copy"
    /\ \E key \in DOMAIN call.headers \ call.copied :
          /\ w' = [w EXCEPT !.header = MapAssign(@, key, call.headers[key]),
                            !.events = Append(@, <<"Header[]=", key>>)]
          /\ call' = [call EXCEPT !.copied = @ \cup {key}]
    /\ UNCHANGED <<pc, r, ret>>

\* writeJSON with the Content-Type set from inside the copy loop
WJ_SetContentType_InLoop ==
    /\ pc = "wj_copy"
    /\ w' = [w EXCEPT !.header = HeaderSet(@, "Content-Type", "application/json"),
                      !.events = Append(@, <<"Header.Set", "Content-Type">>)]
    /\ pc' = IF call.copied = DOMAIN call.headers THEN "wj_status" ELSE "wj_copy"
    /\ UNCHANGED <<call, r, ret>>

\* the loop is over: w.Header().Set("Content-Type", "application/json")
WJ_SetContentType ==
    /\ pc = "wj_copy"
    /\ call.copied = DOMAIN call.headers
    /\ w' = [w EXCEPT !.header = HeaderSet(@, "Content-Type", "application/json"),
                      !.events = Append(@, <<"Header.Set", "Content-Type">>)]
    /\ pc' = "wj_status"
    /\ UNCHANGED <<call, r, ret>>

\* w.WriteHeader(status)
WJ_WriteHeader ==
    /\ pc = "wj_status"
    /\ w' = WriteHeader(w, call.status)
    /\ pc' = "wj_write"
    /\ UNCHANGED <<call, r, ret>>

\* writeJSON returning the error of a short write
WJ_Write_Checked ==
    /\ pc = "wj_write"
    /\ \E n \in {0, 1, Len(call.js)} :
          /\ w' = Write(w, call.js, n)
          /\ ret' = IF n < Len(call.js)
                    THEN RetErr([msg |-> "short write", arg |-> ""])
                    ELSE RetNil
    /\ pc' = "done"
    /\ UNCHANGED <<call, r>>

\* w.Write(js), its result dropped, then return nil; the sink accepts all of
\* js, a part of it, or nothing
WJ_Write ==
    /\ pc = "wj_write"
    /\ \E n \in {0, 1, Len(call.js)} : w' = Write(w, call.js, n)
    /\ ret' = RetNil
    /\ pc' = "done"
    /\ UNCHANGED <<call, r>>

(***************************************************************************)
(* readIDParam                                                             *)
(***************************************************************************)
IdChars == {"0", "1", "9", "-", "+", "a"}
Digits == {"0", "1", "2", "3", "4", "5", "6", "7", "8", "9"}
DigitVal(c) ==
    CASE c = "0" -> 0 [] c = "1" -> 1 [] c = "2" -> 2 [] c = "3" -> 3
      [] c = "4" -> 4 [] c = "5" -> 5 [] c = "6" -> 6 [] c = "7" -> 7
      [] c = "8" -> 8 [] c = "9" -> 9

\* Unbounded naturals are kept as their decimal digits, most significant
\* first and without leading zeros (zero is the empty sequence), so that the
\* 64-bit limits are exact.
Max63 == <<9,2,2,3,3,7,2,0,3,6,8,5,4,7,7,5,8,0,7>>      \* 1<<63 - 1
Cutoff63 == <<9,2,2,3,3,7,2,0,3,6,8,5,4,7,7,5,8,0,8>>   \* 1<<63
MaxU64 == <<1,8,4,4,6,7,4,4,0,7,3,7,0,9,5,5,1,6,1,5>>   \* 1<<64 - 1

RECURSIVE LexLess(_, _)
LexLess(a, b) ==
    /\ a # <<>>
    /\ \/ Head(a) < Head(b)
       \/ Head(a) = Head(b) /\ LexLess(Tail(a), Tail(b))

NatLess(a, b) == Len(a) < Len(b) \/ (Len(a) = Len(b) /\ LexLess(a, b))

\* n*10 + d
MulAdd(n, d) == IF n = <<>> /\ d = 0 THEN <<>> ELSE Append(n, d)

\* the digit loop of strconv.ParseUint(s, 10, 64): a byte that is no digit is
\* a syntax error, a value above 1<<64 - 1 a range error
RECURSIVE ParseUintLoop(_, _)
ParseUintLoop(s, n) ==
    IF s = <<>> THEN [err |-> "nil", un |-> n]
    ELSE IF Head(s) \notin Digits THEN [err |-> "syntax", un |-> <<>>]
    ELSE IF NatLess(MaxU64, MulAdd(n, DigitVal(Head(s))))
         THEN [err |-> "range", un |-> MaxU64]
    ELSE ParseUintLoop(Tail(s), MulAdd(n, DigitVal(Head(s))))

ParseUint(s) ==
    IF s = <<>> THEN [err |-> "syntax", un |-> <<>>] ELSE ParseUintLoop(s, <<>>)

\* strconv.ParseInt(s, 10, 64): an optional sign, then ParseUint, then the
\* signed range
ParseInt(s) ==
    IF s = <<>> THEN [err |-> "syntax", neg |-> FALSE, mag |-> <<>>]
    ELSE LET neg == Head(s) = "-"
             rest == IF Head(s) \in {"+", "-"} THEN Tail(s) ELSE s
             u == ParseUint(rest)
         IN IF u.err = "syntax" THEN [err |-> "syntax", neg |-> FALSE, mag |-> <<>>]
            ELSE IF ~neg /\ ~NatLess(u.un, Cutoff63)
                 THEN [err |-> "range", neg |-> FALSE, mag |-> Max63]
            ELSE IF neg /\ NatLess(Cutoff63, u.un)
                 THEN [err |-> "range", neg |-> TRUE, mag |-> Cutoff63]
            ELSE [err |-> "nil", neg |-> neg /\ u.un # <<>>, mag |-> u.un]

\* readIDParam with the test id < 1
ReadIDParamResult_NoZero(param) ==
    LET p == ParseInt(param)
    IN IF p.err # "nil" \/ p.neg \/ p.mag = <<>>
       THEN [kind |-> "error", id |-> <<>>,
             err |-> [msg |-> "invalid id parameter", arg |-> ""]]
       ELSE [kind |-> "nil", id |-> p.mag]

\* if err != nil || id < 0 { return 0, errors.New("invalid id parameter") }
\* return id, nil
ReadIDParamResult(param) ==
    LET p == ParseInt(param)
    IN IF p.err # "nil" \/ p.neg
       THEN [kind |-> "error", id |-> <<>>,
             err |-> [msg |-> "invalid id parameter", arg |-> ""]]
       ELSE [kind |-> "nil", id |-> p.mag]

RECURSIVE StringsUpTo(_)
StringsUpTo(n) ==
    IF n = 0 THEN {<<>>}
    ELSE LET shorter == StringsUpTo(n - 1)
         IN shorter \cup {Append(s, c) : s \in shorter, c \in IdChars}

\* the limits of the signed and the unsigned 64-bit range, as text
BoundaryParams ==
    {<<"9","2","2","3","3","7","2","0","3","6","8","5","4","7","7","5","8","0","7">>,
     <<"9","2","2","3","3","7","2","0","3","6","8","5","4","7","7","5","8","0","8">>,
     <<"-","9","2","2","3","3","7","2","0","3","6","8","5","4","7","7","5","8","0","8">>,
     <<"1","8","4","4","6","7","4","4","0","7","3","7","0","9","5","5","1","6","1","6">>,
     <<"0","9","2","2","3","3","7","2","0","3","6","8","5","4","7","7","5","8","0","7">>}

\* the values of params.ByName("id"); an absent parameter reads as ""
IdParams == StringsUpTo(MaxIdLen) \cup BoundaryParams

\* the handler calls readIDParam(r)
ReadIDParam ==
    /\ pc = "idle"
    /\ \E param \in IdParams :
          /\ r' = [FreshRequest EXCEPT !.param = param]
          /\ call' = [op |-> "readIDParam"]
          /\ ret' = ReadIDParamResult(param)
    /\ pc' = "done"
    /\ UNCHANGED w

(***************************************************************************)
(* The request body and encoding/json's Decoder.                           *)
(*                                                                         *)
(* A body is a sequence of segments, each a run of bytes of one kind:      *)
(*   ws    white space                                                     *)
(*   obj   a complete JSON object                                          *)
(*   str   a complete JSON string                                          *)
(*   bad   bytes that begin no JSON value                                  *)
(*   open  a JSON object that the end of the body cuts short (last only)   *)
(* The members of the first object are kept beside the segments: the       *)
(* content of a later value decides nothing in readJSON.                   *)
(***************************************************************************)
Seg(k, n) == [k |-> k, len |-> n]

Segs ==
    {Seg(k, n) : k \in {"ws", "obj"}, n \in {SmallLen, MaxBytes}}
    \cup {Seg(k, SmallLen) : k \in {"str", "bad", "open"}}

RECURSIVE LayoutsUpTo(_)
LayoutsUpTo(n) ==
    IF n = 0 THEN {<<>>}
    ELSE LET shorter == LayoutsUpTo(n - 1)
         IN shorter \cup
            {Append(b, sg) : b \in {x \in shorter : x = <<>> \/ x[Len(x)].k # "open"},
                             sg \in Segs}

Bodies == LayoutsUpTo(MaxSegs)

RECURSIVE BodyLen(_)
BodyLen(b) == IF b = <<>> THEN 0 ELSE Head(b).len + BodyLen(Tail(b))

MemberKeys == {"title", "TITLE", "extra"}
JSONTypes == {"string", "number"}

RECURSIVE MembersUpTo(_)
MembersUpTo(n) ==
    IF n = 0 THEN {<<>>}
    ELSE LET shorter == MembersUpTo(n - 1)
         IN shorter \cup {Append(m, [key |-> k, type |-> t]) :
                            m \in shorter, k \in MemberKeys, t \in JSONTypes}

RECURSIVE SkipSpace(_, _, _)
\* the decoder skips the white space before a value
SkipSpace(b, i, off) ==
    IF i <= Len(b) /\ b[i].k = "ws" THEN SkipSpace(b, i + 1, off + b[i].len)
    ELSE [i |-> i, off |-> off]

\* the body's first value is an object
FirstIsObject(b) ==
    LET p == SkipSpace(b, 1, 0) IN p.i <= Len(b) /\ b[p.i].k = "obj"

\* the destinations: something that is no non-nil pointer, or a pointer to a
\* struct with the given fields
NoFields == [f \in {} |-> ""]
Dsts == {[valid |-> FALSE, fields |-> NoFields],
         [valid |-> TRUE, fields |-> NoFields],
         [valid |-> TRUE, fields |-> [f \in {"title"} |-> "string"]]}

\* Decoder.readValue behind http.MaxBytesReader(w, body, limit): the reader
\* hands over the first limit bytes and then, when the body is longer, a
\* *http.MaxBytesError instead of io.EOF. What was read is scanned before
\* the reader's error is looked at.
ReadValue(b, i, off, limit) ==
    LET p == SkipSpace(b, i, off)
        over == BodyLen(b) > limit
        fail(kind) == [err |-> kind, i |-> p.i, off |-> p.off, at |-> 0]
    IN IF p.i > Len(b)
       THEN fail(IF over THEN "MaxBytesError" ELSE "EOF")
       ELSE LET sg == b[p.i]
                end == p.off + sg.len
            IN IF p.off >= limit THEN fail("MaxBytesError")
               ELSE IF sg.k = "bad"
                    THEN [err |-> "SyntaxError", i |-> p.i, off |-> p.off,
                          at |-> p.off + 1]
               ELSE IF sg.k = "open"
                    THEN fail(IF over THEN "MaxBytesError" ELSE "ErrUnexpectedEOF")
               ELSE IF end > limit THEN fail("MaxBytesError")
               ELSE [err |-> "nil", i |-> p.i + 1, off |-> end, at |-> p.i]

\* the struct field a JSON key decodes into: the field of that name, or else
\* one that differs from it in letter case only
Fold(key) == IF key = "TITLE" THEN "title" ELSE key

FieldFor(fields, key) ==
    IF key \in DOMAIN fields THEN key
    ELSE IF Fold(key) \in DOMAIN fields THEN Fold(key)
    ELSE ""

RECURSIVE ObjectError(_, _, _)
\* decodeState.object on a struct: the first error met is the one kept
ObjectError(members, fields, disallowUnknown) ==
    IF members = <<>> THEN [kind |-> "nil"]
    ELSE LET m == Head(members)
             f == FieldFor(fields, m.key)
         IN IF f = ""
            THEN IF disallowUnknown
                 THEN [kind |-> "unknown field", key |-> m.key]
                 ELSE ObjectError(Tail(members), fields, disallowUnknown)
            ELSE IF fields[f] # m.type
                 THEN [kind |-> "UnmarshalTypeError", field |-> f, at |-> SmallLen]
            ELSE ObjectError(Tail(members), fields, disallowUnknown)

\* decodeState.unmarshal of a value that was read in full
Unmarshal(dst, sg, members, disallowUnknown) ==
    IF ~dst.valid THEN [kind |-> "InvalidUnmarshalError"]
    ELSE IF sg.k = "str"
         THEN [kind |-> "UnmarshalTypeError", field |-> "", at |-> sg.len]
    ELSE ObjectError(members, dst.fields, disallowUnknown)

\* dec.Decode(dst): read one value, then unmarshal it
Decode(b, members, i, off, limit, dst, disallowUnknown) ==
    LET rv == ReadValue(b, i, off, limit)
    IN IF rv.err # "nil"
       THEN [err |-> [kind |-> rv.err, at |-> rv.at], i |-> rv.i, off |-> rv.off]
       ELSE [err |-> Unmarshal(dst, b[rv.at], members, disallowUnknown),
             i |-> rv.i, off |-> rv.off]

(***************************************************************************)
(* readJSON                                                                *)
(***************************************************************************)
\* the switch over the error of the first Decode, case by case in its order
\* (a message is kept as its format and its argument; the argument of the
\* unknown-key message is the key, which the code prints quoted)
Triage(err) ==
    CASE err.kind = "SyntaxError" ->
           RetErr([msg |-> "body contains badly-formed JSON (at character %d)",
                   arg |-> err.at])
      [] err.kind = "ErrUnexpectedEOF" ->
           RetErr([msg |-> "body contains badly-formed JSON", arg |-> ""])
      [] err.kind = "UnmarshalTypeError" ->
           IF err.field # ""
           THEN RetErr([msg |-> "body contains incorrect JSON type for field %q",
                        arg |-> err.field])
           ELSE RetErr([msg |-> "body contains incorrect JSON\ttype at (at character %d)",
                        arg |-> err.at])
      [] err.kind = "EOF" ->
           RetErr([msg |-> "body cannot be empty", arg |-> ""])
      [] err.kind = "unknown field" ->
           RetErr([msg |-> "body contains unknown key %s", arg |-> err.key])
      [] err.kind = "MaxBytesError" ->
           RetErr([msg |-> "body cannot be larger than %d bytes", arg |-> MaxBytes])
      [] err.kind = "InvalidUnmarshalError" ->
           RetPanic([msg |-> "json: Unmarshal(non-pointer)", arg |-> ""])
      [] OTHER -> RetErr([msg |-> err.kind, arg |-> ""])

\* the decoder left lenient
DisallowUnknownFields_Off == FALSE

\* dec.DisallowUnknownFields()
DisallowUnknownFields == TRUE

\* the request left with the reader it came with
MaxBytesReader_Unwrapped(req) == req

\* r.Body = http.MaxBytesReader(w, r.Body, int64(maxBites))
MaxBytesReader(req) == [req EXCEPT !.reader = "capped"]

\* the capped reader is read past its limit: the server's response is told
\* (requestTooLarge), which asks for the connection to be closed
RequestTooLarge(sink) ==
    IF ~sink.server THEN sink
    ELSE IF sink.wroteHeader THEN [sink EXCEPT !.closeAfterReply = TRUE]
    ELSE [sink EXCEPT !.closeAfterReply = TRUE,
                      !.header = HeaderSet(@, "Connection", "close"),
                      !.events = Append(@, <<"Header.Set", "Connection">>)]

\* The reads behind one Decode. A Decode that ends in MaxBytesError has read
\* past the limit; another one over a body longer than the limit may have,
\* depending on how far the decoder's buffered reads ran ahead.
ReadsOfDecode(d) ==
    /\ \E hit \in BOOLEAN :
          /\ d.err.kind = "MaxBytesError" => hit
          /\ hit => BodyLen(r.body) > MaxBytes
          /\ r' = [r EXCEPT !.next = d.i, !.off = d.off,
                            !.limitHit = @ \/ hit]
          /\ w' = IF hit /\ ~r.limitHit THEN RequestTooLarge(w) ELSE w

\* the handler calls readJSON(w, r, dst)
CallReadJSON ==
    /\ pc = "idle"
    /\ \E b \in Bodies, dst \in Dsts, server \in BOOLEAN :
          \E members \in (IF FirstIsObject(b) THEN MembersUpTo(MaxMembers) ELSE {<<>>}) :
             /\ r' = [FreshRequest EXCEPT !.body = b, !.members = members]
             /\ w' = FreshWriter(server)
             /\ call' = [op |-> "readJSON", dst |-> dst]
    /\ pc' = "rj_wrap"
    /\ UNCHANGED ret

\* maxBites := 1_048_576; r.Body = http.MaxBytesReader(...);
\* dec := json.NewDecoder(r.Body); dec.DisallowUnknownFields()
RJ_Wrap ==
    /\ pc = "rj_wrap"
    /\ r' = MaxBytesReader(r)
    /\ pc' = "rj_decode"
    /\ UNCHANGED <<call, w, ret>>

\* err := dec.Decode(dst) and the triage of its error
RJ_Decode ==
    /\ pc = "rj_decode"
    /\ LET d == Decode(r.body, r.members, r.next, r.off, MaxBytes, call.dst,
                       DisallowUnknownFields)
       IN /\ ReadsOfDecode(d)
          /\ IF d.err.kind # "nil"
             THEN ret' = Triage(d.err) /\ pc' = "done"
             ELSE ret' = ret /\ pc' = "rj_second"
    /\ UNCHANGED call

\* readJSON with the second Decode tested by err != nil
RJ_Second_NilTest ==
    /\ pc = "rj_second"
    /\ LET d == Decode(r.body, <<>>, r.next, r.off, MaxBytes,
                       [valid |-> TRUE, fields |-> NoFields],
                       DisallowUnknownFields)
       IN /\ ReadsOfDecode(d)
          /\ ret' = IF d.err.kind # "nil"
                    THEN RetErr([msg |-> "body can only contain a single json value",
                                 arg |-> ""])
                    ELSE RetNil
    /\ pc' = "done"
    /\ UNCHANGED call

\* err = dec.Decode(&struct{}{}); anything but io.EOF is a second value
RJ_Second ==
    /\ pc = "rj_second"
    /\ LET d == Decode(r.body, <<>>, r.next, r.off, MaxBytes,
                       [valid |-> TRUE, fields |-> NoFields],
                       DisallowUnknownFields)
       IN /\ ReadsOfDecode(d)
          /\ ret' = IF d.err.kind # "EOF"
                    THEN RetErr([msg |-> "body can only contain a single json value",
                                 arg |-> ""])
                    ELSE RetNil
    /\ pc' = "done"
    /\ UNCHANGED call

(***************************************************************************)
(* The requests of the server, one after the other.                        *)
(***************************************************************************)
Init ==
    /\ pc = "idle"
    /\ call = NoCall
    /\ w = FreshWriter(TRUE)
    /\ r = FreshRequest
    /\ ret = NoRet

\* the helper has returned (or panicked); the next request starts afresh
NextRequest ==
    /\ pc = "done"
    /\ pc' = "idle"
    /\ call' = NoCall
    /\ w' = FreshWriter(TRUE)
    /\ r' = FreshRequest
    /\ ret' = NoRet

Next ==
    \/ CallWriteJSON
    \/ WJ_Marshal
    \/ WJ_CopyHeader
    \/ WJ_SetContentType
    \/ WJ_WriteHeader
    \/ WJ_Write
    \/ ReadIDParam
    \/ CallReadJSON
    \/ RJ_Wrap
    \/ RJ_Decode
    \/ RJ_Second
    \/ NextRequest

Spec == Init /\ [][Next]_vars

(***************************************************************************)
(* The properties.                                                         *)
(***************************************************************************)
WriteJSONDone == pc = "done" /\ call.op = "writeJSON"
ReadJSONDone == pc = "done" /\ call.op = "readJSON"
ReadIDParamDone == pc = "done" /\ call.op = "readIDParam"

IsAssign(e) == e[1] \in {"Header[]=", "Header.Set"}
SingleValueErr == RetErr([msg |-> "body can only contain a single json value", arg |-> ""])
SizeCapErr == RetErr([msg |-> "body cannot be larger than %d bytes", arg |-> MaxBytes])
UnknownKeyErr(key) == RetErr([msg |-> "body contains unknown key %s", arg |-> key])

\* C1: in every run of writeJSON that passes serialization the sink sees, in
\* this order, the copy of every caller header, the Content-Type, one
\* WriteHeader with the caller's status, and the body; no header is assigned
\* once the status or a body byte is written.
C1_WriteOrder ==
    call.op = "writeJSON" =>
      LET ev == w.events
          n == Cardinality(DOMAIN call.headers)
      IN /\ \A i, j \in 1..Len(ev) :
               i < j => /\ ~(ev[i][1] \in {"WriteHeader", "Write"} /\ IsAssign(ev[j]))
                        /\ ~(ev[i][1] = "Write" /\ ev[j][1] = "WriteHeader")
                        /\ ~(ev[i][1] = "Header.Set" /\ ev[j][1] = "Header[]=")
         /\ Cardinality({i \in 1..Len(ev) : ev[i][1] = "WriteHeader"}) <= 1
         /\ w.wroteHeader => w.header = w.sent
         /\ (pc = "done" /\ ret = RetNil) =>
               /\ Len(ev) = n + 3
               /\ \A i \in 1..n : ev[i][1] = "Header[]="
               /\ {ev[i][2] : i \in 1..n} = DOMAIN call.headers
               /\ ev[n + 1] = <<"Header.Set", "Content-Type">>
               /\ ev[n + 2][1] = "WriteHeader"
               /\ ev[n + 3][1] = "Write"
               /\ w.status = call.status

C1_Witness ==
    /\ WriteJSONDone /\ ret = RetNil
    /\ Cardinality(DOMAIN call.headers) >= 2
    /\ w.body = call.js

\* C2: when serialization fails, writeJSON returns the error and the sink is
\* as it was: no header copied, no Content-Type, no status, no body byte.
C2_MarshalErrorLeavesSink ==
    (call.op = "writeJSON" /\ MarshalFails(call.data)) =>
      /\ w = FreshWriter(TRUE)
      /\ pc = "done" => ret.kind = "error"

C2_Witness ==
    /\ WriteJSONDone /\ MarshalFails(call.data)
    /\ "Content-Type" \in DOMAIN call.headers
    /\ ret.kind = "error"

\* C3: after a successful writeJSON the response carries application/json as
\* its only content-type value, whatever header map the caller passed and
\* however the caller spelled a Content-Type key in it.
C3_OnlyJSONContentType ==
    (WriteJSONDone /\ ret = RetNil) =>
      SentValues(w, "Content-Type") = {"application/json"}

\* C4: readJSON called with a destination that is no non-nil pointer panics,
\* whatever the request body.
C4_InvalidDstPanics ==
    (ReadJSONDone /\ ~call.dst.valid) => ret.kind = "panic"

\* the first value of the body decodes into the destination
FirstDecodes ==
    Decode(r.body, r.members, 1, 0, MaxBytes, call.dst, TRUE).err.kind = "nil"
\* the segments after the first value
AfterFirst ==
    LET p == SkipSpace(r.body, 1, 0)
    IN SubSeq(r.body, p.i + 1, Len(r.body))
HasNonSpace(b) == \E i \in 1..Len(b) : b[i].k # "ws"

\* C5 as stated: one value that decodes followed by non-whitespace content
\* gets the single-value error, and nil is returned only when nothing at
\* all follows the first value.
C5_NilOnlyAtEndOfInput ==
    ReadJSONDone =>
      /\ (FirstDecodes /\ HasNonSpace(AfterFirst)) => ret = SingleValueErr
      /\ ret = RetNil => AfterFirst = <<>>

\* C5, amended: one value that decodes followed by non-whitespace content
\* gets the single-value error, and nil is returned only when nothing but
\* white space comes between the first value and the end of the input.
C5_SingleValue ==
    ReadJSONDone =>
      /\ (FirstDecodes /\ HasNonSpace(AfterFirst)) => ret = SingleValueErr
      /\ ret = RetNil => (FirstDecodes /\ ~HasNonSpace(AfterFirst))

C5_Witness ==
    /\ ReadJSONDone /\ ret = SingleValueErr
    /\ Len(r.body) = 2 /\ r.body[1].k = "obj" /\ r.body[2].k = "obj"

\* C6: for every body longer than the size cap readJSON returns the size-cap
\* error that reports the limit, whatever the body holds.
C6_OversizeReportsLimit ==
    (ReadJSONDone /\ call.dst.valid /\ BodyLen(r.body) > MaxBytes) =>
      ret = SizeCapErr

\* the body is one JSON object, white space around it at most
IsObjectBody == FirstIsObject(r.body) /\ ~HasNonSpace(AfterFirst)
\* the members hold every field of the destination with its type, and one
\* more member, of key x
ExpectedPlus(x) ==
    /\ Len(r.members) = Cardinality(DOMAIN call.dst.fields) + 1
    /\ \A f \in DOMAIN call.dst.fields :
          \E i \in 1..Len(r.members) :
             r.members[i].key = f /\ r.members[i].type = call.dst.fields[f]
    /\ \E i \in 1..Len(r.members) : r.members[i].key = x
\* where the first value of the body ends
FirstEnd ==
    LET p == SkipSpace(r.body, 1, 0) IN p.off + r.body[p.i].len

\* C7 as stated: an object body with the destination's fields and one extra
\* field the destination does not have gets the unknown-key error naming it.
C7_ExtraFieldRejected ==
    (ReadJSONDone /\ call.dst.valid /\ IsObjectBody) =>
      \A x \in MemberKeys \ DOMAIN call.dst.fields :
         ExpectedPlus(x) => ret = UnknownKeyErr(x)

\* C7, amended: an object body that ends within the size cap, with the
\* destination's fields and one extra field whose name matches no field of
\* the destination in any letter case, gets the unknown-key error naming it.
C7_UnknownKey ==
    (ReadJSONDone /\ call.dst.valid /\ IsObjectBody /\ FirstEnd <= MaxBytes) =>
      \A x \in MemberKeys :
         (ExpectedPlus(x) /\ \A f \in DOMAIN call.dst.fields : Fold(x) # Fold(f))
            => ret = UnknownKeyErr(x)

C7_Witness ==
    /\ ReadJSONDone /\ IsObjectBody
    /\ DOMAIN call.dst.fields = {"title"}
    /\ ExpectedPlus("extra")
    /\ ret = UnknownKeyErr("extra")

\* decimal text, and the number it denotes
IsDigits(s) == s # <<>> /\ \A i \in 1..Len(s) : s[i] \in Digits
RECURSIVE ValueOf(_)
ValueOf(s) ==
    IF s = <<>> THEN <<>>
    ELSE IF Head(s) = "0" THEN ValueOf(Tail(s))
    ELSE [i \in 1..Len(s) |-> DigitVal(s[i])]
\* the text strconv.FormatInt gives a number that is not negative
IsBase10Text(s) == IsDigits(s) /\ (Len(s) > 1 => Head(s) # "0")
InRange63(v) == ~NatLess(Max63, v)
IdErr == [kind |-> "error", id |-> <<>>,
          err |-> [msg |-> "invalid id parameter", arg |-> ""]]

\* C8 as stated: readIDParam returns (n, nil) exactly when the parameter is
\* the base-10 text of an n with 0 <= n <= 2^63 - 1, and (0, "invalid id
\* parameter") otherwise.
C8_ExactlyBase10Text ==
    ReadIDParamDone =>
      IF IsBase10Text(r.param) /\ InRange63(ValueOf(r.param))
      THEN ret = [kind |-> "nil", id |-> ValueOf(r.param)]
      ELSE ret = IdErr

\* C8, amended: readIDParam returns (n, nil) exactly when the parameter is an
\* optional sign, + or -, followed by one or more decimal digits (leading
\* zeros allowed) that denote an n with 0 <= n <= 2^63 - 1, n being 0 under a
\* - sign; and (0, "invalid id parameter") otherwise.
C8_SignedDecimal ==
    ReadIDParamDone =>
      LET p == r.param
          signed == p # <<>> /\ Head(p) \in {"+", "-"}
          ds == IF signed THEN Tail(p) ELSE p
      IN IF /\ IsDigits(ds)
            /\ InRange63(ValueOf(ds))
            /\ (signed /\ Head(p) = "-") => ValueOf(ds) = <<>>
         THEN ret = [kind |-> "nil", id |-> ValueOf(ds)]
         ELSE ret = IdErr

C8_Witness ==
    /\ ReadIDParamDone
    /\ r.param = <<"+", "0", "9">>
    /\ ret = [kind |-> "nil", id |-> <<9>>]

\* C9 as stated: readJSON writes no header, status or body to the sink and
\* leaves the request holding the body reader it came with.
C9_NoSideEffect ==
    ReadJSONDone =>
      /\ w.header = NoHeader /\ ~w.wroteHeader /\ w.body = <<>>
      /\ r.reader = "orig"

\* C9, amended: readJSON writes no status and no body to the sink, and no
\* header but Connection: close, which the capped reader sets on the server's
\* response when a body longer than the cap is read past the cap; it leaves
\* the request holding the size-capped reader that wraps the body it came
\* with.
C9_SideEffects ==
    call.op = "readJSON" =>
      /\ ~w.wroteHeader /\ w.status = 0 /\ w.body = <<>> /\ w.sent = NoHeader
      /\ \/ w.header = NoHeader
         \/ /\ w.header = ("Connection" :> <<"close">>)
            /\ w.server /\ r.limitHit /\ BodyLen(r.body) > MaxBytes
      /\ pc = "done" => r.reader = "capped"
      /\ (pc = "done" /\ ret = SizeCapErr /\ w.server) => w.header # NoHeader

C9_Witness ==
    /\ ReadJSONDone
    /\ r.reader = "capped"
    /\ w.header = ("Connection" :> <<"close">>)
    /\ ret = SizeCapErr

\* C10: writeJSON returns an error exactly when serialization fails; after
\* that it returns nil, also when the sink took only part of the body or none
\* of it.
C10_NilAfterMarshal ==
    WriteJSONDone =>
      /\ ret.kind = "error" <=> MarshalFails(call.data)
      /\ ~MarshalFails(call.data) => ret = RetNil

\* nil is returned and the sink holds less than the whole body
C10_Witness ==
    /\ WriteJSONDone /\ ret = RetNil
    /\ w.body # call.js

====
